---------------------------- MODULE Spec2Model ----------------------------
(***************************************************************************)
(* Model of the receipt renamer: src/extract_receipt.py (field extraction  *)
(* from OCR text) and src/process_receipts.py (filename construction and   *)
(* the batch rename loop).                                                 *)
(*                                                                         *)
(* Text is a sequence of one-character strings.  The regular expressions   *)
(* of the source are written as syntax trees and run by a backtracking     *)
(* matcher that returns the matches in the priority order of Python's re   *)
(* module (leftmost start, greedy repetition, alternatives left to right). *)
(***************************************************************************)
EXTENDS Integers, Sequences, FiniteSets, TLC

VARIABLES
  fs,             \* the folder: file name -> document held by that file
  fs0,            \* the folder as it was when the batch started (history)
  files,          \* main: the enumerated, sorted list of file names
  idx,            \* main: 1-based position of the for loop in files
  vendor_name,    \* main: sys.argv[2]
  dry_run,        \* main: '--dry-run' in sys.argv
  result,         \* main: the dict returned by process_receipt_file
  success_count,  \* main
  error_count,    \* main
  pc,             \* position of the running program
  log,            \* history: one record per loop iteration that finished
  arg,            \* input of the pure function under check
  ret,            \* its result
  ret2            \* the result of applying it to its own result

vars == <<fs, fs0, files, idx, vendor_name, dry_run, result, success_count,
          error_count, pc, log, arg, ret, ret2>>

\* Python's None: a value that is no text (a text holds one-character strings)
None == <<"None">>

-----------------------------------------------------------------------------
(* Characters *)

Digits == <<"0", "1", "2", "3", "4", "5", "6", "7", "8", "9">>
LowerLetters == <<"a", "b", "c", "d", "e", "f", "g", "h", "i", "j", "k", "l", "m",
                  "n", "o", "p", "q", "r", "s", "t", "u", "v", "w", "x", "y", "z">>
UpperLetters == <<"A", "B", "C", "D", "E", "F", "G", "H", "I", "J", "K", "L", "M",
                  "N", "O", "P", "Q", "R", "S", "T", "U", "V", "W", "X", "Y", "Z">>

\* The characters of the model in code point order (the order of str comparison).
Ascii == <<"\n", " ", "\"", "#", "$", "&", "(", ")", "*", ",", "-", ".", "/">>
         \o Digits \o <<":", "<", ">", "?", "@">> \o UpperLetters
         \o <<"\\", "_">> \o LowerLetters \o <<"|">>

Range(f) == {f[i] : i \in DOMAIN f}

Sigma == Range(Ascii)
Digit == Range(Digits)
Letter == Range(LowerLetters) \cup Range(UpperLetters)
WordChar == Letter \cup Digit \cup {"_"}     \* \w
Space == {" ", "\n"}                          \* \s

Ord(c) == CHOOSE i \in DOMAIN Ascii : Ascii[i] = c

IndexIn(c, alphabet) == CHOOSE i \in DOMAIN alphabet : alphabet[i] = c

lower_char(c) == IF c \in Range(UpperLetters) THEN LowerLetters[IndexIn(c, UpperLetters)] ELSE c
upper_char(c) == IF c \in Range(LowerLetters) THEN UpperLetters[IndexIn(c, LowerLetters)] ELSE c

str_lower(s) == [i \in 1..Len(s) |-> lower_char(s[i])]
str_upper(s) == [i \in 1..Len(s) |-> upper_char(s[i])]

DigitVal(c) == IndexIn(c, Digits) - 1

\* s[a..b-1], the Python slice s[a-1:b-1] in 1-based positions
Slice(s, a, b) == SubSeq(s, a, b - 1)

\* a < b for str: the order of the code points at the first difference
StrLess(a, b) ==
  \E i \in 1..Len(b) :
    /\ \A j \in 1..(i - 1) : j <= Len(a) /\ a[j] = b[j]
    /\ (i > Len(a) \/ Ord(a[i]) < Ord(b[i]))

RECURSIVE int_of(_)
int_of(s) == IF s = <<>> THEN 0 ELSE int_of(SubSeq(s, 1, Len(s) - 1)) * 10 + DigitVal(s[Len(s)])

RECURSIVE str_of_int(_)
str_of_int(n) == IF n < 10 THEN <<Digits[n + 1]>> ELSE str_of_int(n \div 10) \o <<Digits[(n % 10) + 1]>>

-----------------------------------------------------------------------------
(* Regular expressions: syntax trees *)

Set(S) == [t |-> "set", s |-> S]
Chr(c) == Set({c})
Cat(a) == [t |-> "seq", a |-> a]
Alt(a) == [t |-> "alt", a |-> a]
Rep(r, lo, hi) == [t |-> "rep", r |-> r, lo |-> lo, hi |-> hi]   \* r{lo,hi}, greedy
Opt(r) == Rep(r, 0, 1)                                           \* r?
Star(r) == Rep(r, 0, -1)                                         \* r*
Plus(r) == Rep(r, 1, -1)                                         \* r+
Grp(k, r) == [t |-> "grp", id |-> k, r |-> r]                    \* k-th ( )
Bol == [t |-> "bol"]                                             \* ^
Eol == [t |-> "eol"]                                             \* $
WordB == [t |-> "wb"]                                            \* \b
Lit(w) == [t |-> "lit", w |-> [i \in 1..Len(w) |-> {w[i]}]]
\* a literal under re.IGNORECASE
LitI(w) == [t |-> "lit", w |-> [i \in 1..Len(w) |-> {lower_char(w[i]), upper_char(w[i])}]]

NoGroups == <<<<0, 0>>, <<0, 0>>, <<0, 0>>>>

RECURSIVE Flat(_, _, _)
\* seqs[lo] \o ... \o seqs[hi] (the range is halved, which keeps the recursion
\* shallow)
Flat(seqs, lo, hi) ==
  IF lo > hi THEN <<>>
  ELSE IF lo = hi THEN seqs[lo]
  ELSE Flat(seqs, lo, (lo + hi) \div 2) \o Flat(seqs, (lo + hi) \div 2 + 1, hi)

RECURSIVE M(_, _, _), MSeq(_, _, _, _, _), RepFrom(_, _, _, _), RepOn(_, _, _, _, _)

\* A repeated character class, without recursion: the longest run first.
RepSet(re, s, st) ==
  LET stops == {j \in st.p..Len(s) : s[j] \notin re.r.s}
      stop == IF stops = {} THEN Len(s) + 1
              ELSE CHOOSE j \in stops : \A k \in stops : j <= k
      run == IF re.hi # -1 /\ stop - st.p > re.hi THEN re.hi ELSE stop - st.p
  IN  IF run < re.lo THEN <<>>
      ELSE [i \in 1..(run - re.lo + 1) |-> [st EXCEPT !.p = st.p + run - i + 1]]

\* The states (position after the match, groups) in which re can end when
\* started in state st on s, in the order a backtracking matcher tries them.
M(re, s, st) ==
  CASE re.t = "set" ->
         IF st.p <= Len(s) /\ s[st.p] \in re.s THEN <<[st EXCEPT !.p = @ + 1]>> ELSE <<>>
    [] re.t = "lit" ->
         IF /\ st.p + Len(re.w) - 1 <= Len(s)
            /\ \A i \in 1..Len(re.w) : s[st.p + i - 1] \in re.w[i]
         THEN <<[st EXCEPT !.p = @ + Len(re.w)]>> ELSE <<>>
    [] re.t = "seq" -> MSeq(re.a, 1, Len(re.a), s, <<st>>)
    [] re.t = "alt" -> Flat([i \in 1..Len(re.a) |-> M(re.a[i], s, st)], 1, Len(re.a))
    [] re.t = "rep" -> IF re.r.t = "set" THEN RepSet(re, s, st) ELSE RepFrom(re, 0, s, st)
    [] re.t = "grp" ->
         LET inner == M(re.r, s, st)
         IN  [i \in 1..Len(inner) |-> [inner[i] EXCEPT !.g[re.id] = <<st.p, inner[i].p>>]]
    [] re.t = "bol" -> IF st.p = 1 THEN <<st>> ELSE <<>>
    [] re.t = "eol" ->
         IF st.p = Len(s) + 1 \/ (st.p = Len(s) /\ s[st.p] = "\n") THEN <<st>> ELSE <<>>
    [] re.t = "wb" ->
         LET before == st.p > 1 /\ s[st.p - 1] \in WordChar
             after == st.p <= Len(s) /\ s[st.p] \in WordChar
         IN  IF before # after THEN <<st>> ELSE <<>>

\* re continued from each of the states sts, in their order
MEach(re, s, sts) == Flat([k \in 1..Len(sts) |-> M(re, s, sts[k])], 1, Len(sts))

\* the concatenation a[lo] ... a[hi] continued from the states sts
MSeq(a, lo, hi, s, sts) ==
  IF sts = <<>> \/ lo > hi THEN sts
  ELSE IF lo = hi THEN MEach(a[lo], s, sts)
  ELSE MSeq(a, (lo + hi) \div 2 + 1, hi, s, MSeq(a, lo, (lo + hi) \div 2, s, sts))

\* the rounds after the k-th of a greedy repetition, continued from the states
\* step the k-th round can end in, then the end of the repetition at st itself
RepOn(re, k, s, st, step) ==
  Flat([i \in 1..Len(step) |-> RepFrom(re, k + 1, s, step[i])], 1, Len(step))
  \o (IF k >= re.lo THEN <<st>> ELSE <<>>)

\* the k-th and later rounds of a greedy repetition, the longest first
RepFrom(re, k, s, st) ==
  RepOn(re, k, s, st, IF re.hi = -1 \/ k < re.hi
                      THEN SelectSeq(M(re.r, s, st), LAMBDA t : t.p > st.p)
                      ELSE <<>>)

NoMatch == [found |-> FALSE, start |-> 0, end |-> 0, g |-> NoGroups]

\* the match object for the end states r of a match attempt at position i
FirstOf(r, i) ==
  IF r = <<>> THEN NoMatch
  ELSE [found |-> TRUE, start |-> i, end |-> r[1].p, g |-> r[1].g]

\* pattern.match(s, pos): the match that starts exactly at position i
re_match_at(re, s, i) == FirstOf(M(re, s, [p |-> i, g |-> NoGroups]), i)

\* the match at the least of the positions hits
LeftmostOf(re, s, hits) ==
  IF hits = {} THEN NoMatch
  ELSE re_match_at(re, s, CHOOSE j \in hits : \A k \in hits : j <= k)

\* pattern.search(s, pos): the leftmost match starting at position i or later
re_search_from(re, s, i) ==
  LeftmostOf(re, s, {j \in i..(Len(s) + 1) : M(re, s, [p |-> j, g |-> NoGroups]) # <<>>})

re_search(re, s) == \E j \in 1..(Len(s) + 1) : M(re, s, [p |-> j, g |-> NoGroups]) # <<>>

re_match(re, s) == M(re, s, [p |-> 1, g |-> NoGroups]) # <<>>

Advance(m) == IF m.end = m.start THEN m.end + 1 ELSE m.end

RECURSIVE Levels(_)
\* the least k with 2^k >= n
Levels(n) == IF n <= 1 THEN 0 ELSE 1 + Levels((n + 1) \div 2)

\* one step of a scan: the match m, and the position the scan goes on from
ScanOne(m) ==
  IF m.found THEN [ms |-> <<m>>, next |-> Advance(m)] ELSE [ms |-> <<>>, next |-> 0]

ScanJoin(first, rest) == [ms |-> first.ms \o rest.ms, next |-> rest.next]

RECURSIVE Scan(_, _, _, _), ScanOn(_, _, _, _)
\* Up to 2^k successive non-overlapping matches found from position i on, left
\* to right, and the position the scan goes on from (0 once a search failed).
Scan(re, s, i, k) ==
  IF k = 0 THEN ScanOne(re_search_from(re, s, i))
  ELSE ScanOn(re, s, Scan(re, s, i, k - 1), k - 1)

\* the scan first, continued by up to 2^k more matches
ScanOn(re, s, first, k) ==
  IF first.next = 0 THEN first ELSE ScanJoin(first, Scan(re, s, first.next, k))

\* pattern.finditer(s): all the non-overlapping matches, left to right
re_finditer(re, s) == Scan(re, s, 1, Levels(Len(s) + 2)).ms

\* what findall lists for the matches ms of s
Found(s, ms, grp) ==
  [k \in 1..Len(ms) |-> IF grp = 0 THEN Slice(s, ms[k].start, ms[k].end)
                        ELSE Slice(s, ms[k].g[grp][1], ms[k].g[grp][2])]

\* re.findall for a pattern without groups (grp = 0) or with one group (grp = 1)
re_findall(re, s, grp) == Found(s, re_finditer(re, s), grp)

\* the text between the (k-1)-th match and the k-th; for k = Len(ms) + 1 the
\* text after the last match
Gap(s, ms, k) ==
  Slice(s, IF k = 1 THEN 1 ELSE ms[k - 1].end, IF k > Len(ms) THEN Len(s) + 1 ELSE ms[k].start)

\* s with each of its matches ms replaced by repl
Replaced(s, ms, repl) ==
  Flat([k \in 1..(Len(ms) + 1) |-> Gap(s, ms, k) \o (IF k > Len(ms) THEN <<>> ELSE repl)],
       1, Len(ms) + 1)

\* re.sub(pattern, repl, s) for a literal replacement
re_sub(re, repl, s) == Replaced(s, re_finditer(re, s), repl)

\* s cut at each of its matches ms
Pieces(s, ms) == [k \in 1..(Len(ms) + 1) |-> Gap(s, ms, k)]

\* re.split(pattern, s) for a pattern without groups that matches no empty text
re_split(re, s) == Pieces(s, re_finditer(re, s))

-----------------------------------------------------------------------------
(* process_receipts.py: building the file name *)

max_length == 50

unknown == <<"u", "n", "k", "n", "o", "w", "n">>
unknown_vendor == unknown \o <<"_", "v", "e", "n", "d", "o", "r">>
unknown_date == unknown \o <<"_", "d", "a", "t", "e">>
unknown_amount == unknown \o <<"_", "a", "m", "o", "u", "n", "t">>

\* r'[/\\:*?"<>|]'
invalid_chars == Set({"/", "\\", ":", "*", "?", "\"", "<", ">", "|"})

\* the positions of s that hold a character outside chars
Kept(s, chars) == {i \in 1..Len(s) : s[i] \notin chars}

\* s from its first position in kept on
from_first(s, kept) ==
  IF kept = {} THEN <<>> ELSE SubSeq(s, CHOOSE i \in kept : \A j \in kept : i <= j, Len(s))

\* s up to its last position in kept
to_last(s, kept) ==
  IF kept = {} THEN <<>> ELSE SubSeq(s, 1, CHOOSE i \in kept : \A j \in kept : i >= j)

\* str.lstrip(chars)
str_lstrip(s, chars) == from_first(s, Kept(s, chars))

\* str.rstrip(chars)
str_rstrip(s, chars) == to_last(s, Kept(s, chars))

\* str.strip(chars)
str_strip(s, chars) == str_rstrip(str_lstrip(s, chars), chars)

\* str.replace(c, '') for one character c
str_remove(s, c) == SelectSeq(s, LAMBDA x : x # c)

\* lines 62-65
or_unknown(sanitized) == IF sanitized = <<>> THEN unknown ELSE sanitized

\* mutant: the truncation keeps one character too many
truncate_off_by_one(sanitized, maxlen) ==
  IF Len(sanitized) > maxlen THEN SubSeq(sanitized, 1, maxlen + 1) ELSE sanitized

\* lines 58-59
truncate(sanitized, maxlen) ==
  IF Len(sanitized) > maxlen THEN SubSeq(sanitized, 1, maxlen) ELSE sanitized

\* lines 49-55
sanitized_text(text) ==
  str_strip(re_sub(Plus(Set({"_"} \cup Space)), <<"_">>, re_sub(invalid_chars, <<"_">>, text)),
            {"_", "."})

sanitize_filename_cut(text, maxlen) ==
  IF text = None \/ text = <<>> THEN unknown
  ELSE or_unknown(truncate(sanitized_text(text), maxlen))

sanitize_filename(text) == sanitize_filename_cut(text, max_length)

-----------------------------------------------------------------------------
(* Checking one pure function: the batch variables stay idle *)

batch_vars == <<fs, fs0, files, idx, vendor_name, dry_run, result, success_count,
                error_count, log>>

BatchIdle ==
  /\ fs = <<>> /\ fs0 = <<>> /\ files = <<>> /\ idx = 0
  /\ vendor_name = <<>> /\ dry_run = FALSE /\ result = None
  /\ success_count = 0 /\ error_count = 0 /\ log = <<>>

Returned == {"returned", "returned_twice"}

-----------------------------------------------------------------------------
(* sanitize_filename on bounded inputs *)

MaxTail == 3

SanAlphabet == {"a", "_", ".", " ", "/"}

Pad(n) == [i \in 1..n |-> "a"]

\* short strings, and strings around max_length characters long
SanInputs ==
  {Pad(n) \o t : n \in {0, max_length - 1},
                 t \in UNION {[1..k -> SanAlphabet] : k \in 0..MaxTail}}

InitSanitize ==
  /\ arg \in SanInputs /\ ret = None /\ ret2 = None /\ pc = "call"
  /\ BatchIdle

Sanitize ==
  /\ pc = "call"
  /\ ret' = sanitize_filename(arg)
  /\ pc' = "returned"
  /\ UNCHANGED <<arg, ret2, batch_vars>>

SanitizeAgain ==
  /\ pc = "returned"
  /\ ret2' = sanitize_filename(ret)
  /\ pc' = "returned_twice"
  /\ UNCHANGED <<arg, ret, batch_vars>>

NextSanitize == Sanitize \/ SanitizeAgain

SpecSanitize == InitSanitize /\ [][NextSanitize]_vars

InvalidFilenameChars == {"/", "\\", ":", "*", "?", "\"", "<", ">", "|"}

\* C5: sanitize_filename(sanitize_filename(s)) = sanitize_filename(s) for every s
C5_SanitizeIdempotent == pc = "returned_twice" => ret2 = ret

\* a string that the replacement, the collapse and the strip leave nothing of
FullyStripped(s) ==
  \A i \in 1..Len(s) : s[i] \in InvalidFilenameChars \cup Space \cup {"_", "."}

SanitizedShape(inp, out) ==
  /\ \A i \in 1..Len(out) : out[i] \notin InvalidFilenameChars
  /\ Len(out) <= 50
  /\ out # <<>>
  /\ FullyStripped(inp) => out = unknown

\* C6: the result of sanitize_filename holds none of / \ : * ? " < > |, is at
\* most 50 characters long and is never empty; an empty or fully stripped input
\* gives the literal unknown
C6_SanitizeShape ==
  /\ pc \in Returned => SanitizedShape(arg, ret)
  /\ pc = "returned_twice" => SanitizedShape(ret, ret2)

\* an input longer than the limit that holds an invalid character was sanitized
C6_Witness ==
  /\ pc = "returned"
  /\ Len(arg) > max_length
  /\ \E i \in 1..Len(arg) : arg[i] \in InvalidFilenameChars
  /\ Len(ret) = max_length

-----------------------------------------------------------------------------
(* extract_receipt.py: datetime.strptime, strftime *)

month_names ==
  <<<<"J", "a", "n", "u", "a", "r", "y">>,
    <<"F", "e", "b", "r", "u", "a", "r", "y">>,
    <<"M", "a", "r", "c", "h">>,
    <<"A", "p", "r", "i", "l">>,
    <<"M", "a", "y">>,
    <<"J", "u", "n", "e">>,
    <<"J", "u", "l", "y">>,
    <<"A", "u", "g", "u", "s", "t">>,
    <<"S", "e", "p", "t", "e", "m", "b", "e", "r">>,
    <<"O", "c", "t", "o", "b", "e", "r">>,
    <<"N", "o", "v", "e", "m", "b", "e", "r">>,
    <<"D", "e", "c", "e", "m", "b", "e", "r">>>>

\* calendar.month_abbr: the first three letters
month_abbr == [i \in 1..12 |-> SubSeq(month_names[i], 1, 3)]

IsLeap(y) == (y % 4 = 0 /\ y % 100 # 0) \/ y % 400 = 0

DaysIn(y, m) ==
  IF m = 2 THEN (IF IsLeap(y) THEN 29 ELSE 28)
  ELSE IF m \in {4, 6, 9, 11} THEN 30 ELSE 31

\* The directives' regular expressions (_strptime.TimeRE); groups: 1 the
\* month, 2 the day, 3 the year.
D09 == Set(Digit)
D19 == Set(Digit \ {"0"})
re_m == Grp(1, Alt(<<Cat(<<Chr("1"), Set({"0", "1", "2"})>>), Cat(<<Chr("0"), D19>>), D19>>))
re_d == Grp(2, Alt(<<Cat(<<Chr("3"), Set({"0", "1"})>>), Cat(<<Set({"1", "2"}), D09>>),
                     Cat(<<Chr("0"), D19>>), D19, Cat(<<Chr(" "), D19>>)>>))
re_y == Grp(3, Cat(<<D09, D09>>))
re_Y == Grp(3, Cat(<<D09, D09, D09, D09>>))
\* the names sorted by decreasing length, as TimeRE orders an alternation
ByLength == <<9, 2, 11, 12, 1, 10, 8, 3, 4, 6, 7, 5>>
re_B == Grp(1, Alt([i \in 1..12 |-> LitI(month_names[ByLength[i]])]))
re_b == Grp(1, Alt([i \in 1..12 |-> LitI(month_abbr[i])]))

\* A format is a sequence of directives ("%m", "%d", "%y", "%Y", "%B", "%b") and
\* literal characters; white space in a format matches \s+.
FormatRE(fmt) ==
  Cat([i \in 1..Len(fmt) |->
        CASE fmt[i] = "%m" -> re_m
          [] fmt[i] = "%d" -> re_d
          [] fmt[i] = "%y" -> re_y
          [] fmt[i] = "%Y" -> re_Y
          [] fmt[i] = "%B" -> re_B
          [] fmt[i] = "%b" -> re_b
          [] fmt[i] \in Space -> Plus(Set(Space))
          [] OTHER -> Chr(fmt[i])])

ValueError == [st |-> "ValueError", y |-> 0, m |-> 0, d |-> 0]
NotParsed == [st |-> "None", y |-> 0, m |-> 0, d |-> 0]

MonthOf(fmt, tok) ==
  IF \E i \in 1..Len(fmt) : fmt[i] = "%m" THEN int_of(tok)
  ELSE IF \E i \in 1..Len(fmt) : fmt[i] = "%B"
       THEN CHOOSE k \in 1..12 : str_lower(month_names[k]) = str_lower(tok)
       ELSE CHOOSE k \in 1..12 : str_lower(month_abbr[k]) = str_lower(tok)

YearOf(fmt, tok) ==
  IF \E i \in 1..Len(fmt) : fmt[i] = "%Y" THEN int_of(tok)
  ELSE IF int_of(tok) <= 68 THEN 2000 + int_of(tok) ELSE 1900 + int_of(tok)

\* the text of group k of the match m of s
Group(s, m, k) == Slice(s, m.g[k][1], m.g[k][2])

\* datetime(year, month, day): ValueError for a day the month does not have
DateOf(year, month, day) ==
  IF year < 1 \/ day > DaysIn(year, month) THEN ValueError
  ELSE [st |-> "ok", y |-> year, m |-> month, d |-> day]

\* the date of the match m of the format's expression on s
DateOfMatch(s, fmt, m) ==
  IF ~m.found \/ m.end # Len(s) + 1 THEN ValueError
  ELSE DateOf(YearOf(fmt, Group(s, m, 3)), MonthOf(fmt, Group(s, m, 1)),
              int_of(str_strip(Group(s, m, 2), {" "})))

\* datetime.strptime(s, fmt): a date, or ValueError
strptime(s, fmt) == DateOfMatch(s, fmt, re_match_at(FormatRE(fmt), s, 1))

Pad2(n) == IF n < 10 THEN <<"0">> \o str_of_int(n) ELSE str_of_int(n)

\* strftime('%Y-%m-%d'); glibc does not pad %Y
strftime_iso(dt) == str_of_int(dt.y) \o <<"-">> \o Pad2(dt.m) \o <<"-">> \o Pad2(dt.d)

-----------------------------------------------------------------------------
(* extract_receipt.py: extract_date *)

DateSep == Set({"/", "-"})

date_patterns ==
  << Cat(<<Rep(D09, 1, 2), DateSep, Rep(D09, 1, 2), DateSep, Rep(D09, 2, 4)>>),
     Cat(<<Rep(D09, 4, 4), DateSep, Rep(D09, 1, 2), DateSep, Rep(D09, 1, 2)>>),
     Cat(<<Plus(Set(WordChar)), Plus(Set(Space)), Rep(D09, 1, 2), Opt(Chr(",")),
           Plus(Set(Space)), Rep(D09, 4, 4)>>),
     Cat(<<Rep(D09, 1, 2), Plus(Set(Space)), Plus(Set(WordChar)), Plus(Set(Space)),
           Rep(D09, 4, 4)>> ) >>

Contains(s, c) == \E i \in 1..Len(s) : s[i] = c

RECURSIVE TryFormats(_, _, _)

\* r is what fmts[i] gave: a date ends the tries, and so does the last format
TryNext(s, fmts, i, r) ==
  IF r.st = "ok" \/ i = Len(fmts) THEN r ELSE TryFormats(s, fmts, i + 1)

\* try: strptime(s, fmts[i]) except ValueError: the next one; the last one
\* is outside any try and lets its ValueError out
TryFormats(s, fmts, i) == TryNext(s, fmts, i, strptime(s, fmts[i]))

\* the separator the formats are written with
SepOf(date_str) == IF Contains(date_str, "/") THEN "/" ELSE "-"

\* mutant: the European formats are tried before the US ones
NumericFormats_day_first(c) ==
  << <<"%d", c, "%m", c, "%Y">>, <<"%m", c, "%d", c, "%Y">>,
     <<"%d", c, "%m", c, "%y">>, <<"%m", c, "%d", c, "%y">> >>

NumericFormats(c) ==
  << <<"%m", c, "%d", c, "%Y">>, <<"%d", c, "%m", c, "%Y">>,
     <<"%m", c, "%d", c, "%y">>, <<"%d", c, "%m", c, "%y">> >>

MonthFirstFormats ==
  << <<"%B", " ", "%d", ",", " ", "%Y">>, <<"%B", " ", "%d", " ", "%Y">>,
     <<"%b", " ", "%d", ",", " ", "%Y">>, <<"%b", " ", "%d", " ", "%Y">> >>

DayFirstFormats ==
  << <<"%d", " ", "%B", " ", "%Y">>, <<"%d", " ", "%b", " ", "%Y">> >>

\* lines 299-317: parts is the date string split at its separators c
parse_parts(date_str, parts, c) ==
  IF Len(parts) = 3
  THEN IF Len(parts[1]) = 4
       THEN strptime(date_str, <<"%Y", c, "%m", c, "%d">>)
       ELSE TryFormats(date_str, NumericFormats(c), 1)
  ELSE NotParsed

\* lines 297-317
parse_numeric(date_str) ==
  IF Contains(date_str, "/") \/ Contains(date_str, "-")
  THEN parse_parts(date_str, re_split(DateSep, date_str), SepOf(date_str))
  ELSE NotParsed

\* lines 319-330: entered when nothing is parsed yet; its last strptime is
\* outside any try
parse_month_first(date_str, parsed) ==
  IF parsed.st = "None" THEN TryFormats(date_str, MonthFirstFormats, 1) ELSE parsed

\* a ValueError that is passed over
ok_or_none(r) == IF r.st = "ok" THEN r ELSE NotParsed

\* lines 332-340: entered when nothing is parsed yet; its last ValueError is
\* passed over
parse_day_first(date_str, parsed) ==
  IF parsed.st = "None" THEN ok_or_none(TryFormats(date_str, DayFirstFormats, 1)) ELSE parsed

\* lines 332-340 after lines 319-330 gave month_first
after_month_first(date_str, month_first) ==
  IF month_first.st = "ValueError" THEN ValueError
  ELSE parse_day_first(date_str, month_first)

\* lines 319-340 after lines 297-317 gave numeric
after_numeric(date_str, numeric) ==
  IF numeric.st = "ValueError" THEN ValueError
  ELSE after_month_first(date_str, parse_month_first(date_str, numeric))

\* the body of the try of lines 293-344: a date, None, or the ValueError that
\* leaves the body at the first statement that raises it
parse_date_str(date_str) == after_numeric(date_str, parse_numeric(date_str))

RECURSIVE extract_date_from(_, _)

\* lines 342-347: a parsed date is returned, anything else goes on to the next
\* pattern
date_of_parsed(text, i, parsed) ==
  IF parsed.st = "ok" THEN strftime_iso(parsed) ELSE extract_date_from(text, i + 1)

\* lines 290-347: only the first match of a pattern is looked at
date_of_matches(text, i, matches) ==
  IF matches # <<>> THEN date_of_parsed(text, i, parse_date_str(matches[1]))
  ELSE extract_date_from(text, i + 1)

\* the for loop over date_patterns, from pattern i on
extract_date_from(text, i) ==
  IF i > Len(date_patterns) THEN None
  ELSE date_of_matches(text, i, re_findall(date_patterns[i], text, 0))

extract_date(text) == extract_date_from(text, 1)


-----------------------------------------------------------------------------
(* float() *)

\* one of the end states r is at position n
EndsAt(r, n) == \E k \in DOMAIN r : r[k].p = n

\* some path of re consumes all of s
re_fullmatch(re, s) == EndsAt(M(re, s, [p |-> 1, g |-> NoGroups]), Len(s) + 1)

DigitPart == Cat(<<D09, Star(Cat(<<Opt(Chr("_")), D09>>))>>)

\* the strings float() accepts, white space around them stripped
float_re ==
  Cat(<<Opt(Chr("-")),
        Alt(<<LitI(<<"i", "n", "f", "i", "n", "i", "t", "y">>), LitI(<<"i", "n", "f">>),
              LitI(<<"n", "a", "n">>),
              Cat(<<Alt(<<Cat(<<DigitPart, Opt(Cat(<<Chr("."), Opt(DigitPart)>>))>>),
                          Cat(<<Chr("."), DigitPart>>)>>),
                    Opt(Cat(<<Set({"e", "E"}), Opt(Chr("-")), DigitPart>>))>>)>>)>>)

\* float(s) does not raise ValueError
float_ok(s) == re_fullmatch(float_re, str_strip(s, Space))

\* the value in hundredths of the digits whole and the digits frac after the point
cents_of(whole, frac) ==
  int_of(whole) * 100 + (IF Len(frac) = 1 THEN int_of(frac) * 10 ELSE int_of(frac))

\* s cut at position dot
cents_at(s, dot) == cents_of(Slice(s, 1, dot), Slice(s, dot + 1, Len(s) + 1))

\* float(s) for s of the form digits, digits. or digits.dd, in hundredths
float_cents(s) ==
  cents_at(s, IF Contains(s, ".") THEN CHOOSE i \in 1..Len(s) : s[i] = "." ELSE Len(s) + 1)

\* f"{x:.2f}" of a value in hundredths
format_2f(cents) == str_of_int(cents \div 100) \o <<".">> \o Pad2(cents % 100)

-----------------------------------------------------------------------------
(* extract_receipt.py: extract_amount *)

amount_keyword ==
  Alt(<<LitI(<<"t", "o", "t", "a", "l">>), LitI(<<"a", "m", "o", "u", "n", "t">>), LitI(<<"d", "u", "e">>), LitI(<<"b", "a", "l", "a", "n", "c", "e">>), LitI(<<"c", "h", "a", "r", "g", "e">>)>>)

keyword_lead ==
  <<amount_keyword, Star(Set({":"} \cup Space)), Opt(Chr("$")), Star(Set(Space))>>

amount_patterns ==
  << Cat(keyword_lead \o <<Grp(1, Cat(<<Plus(D09), Opt(Chr(".")), Rep(D09, 0, 2)>>))>>),
     Cat(<<Chr("$"), Star(Set(Space)),
           Grp(1, Cat(<<Plus(D09), Opt(Chr(".")), Rep(D09, 0, 2)>>))>>),
     Cat(keyword_lead \o <<Grp(1, Cat(<<Plus(D09), Set({",", "."}), Rep(D09, 0, 2)>>))>>) >>

fallback_pattern ==
  Cat(<<Chr("$"), Grp(1, Cat(<<Plus(D09), Opt(Chr(".")), Rep(D09, 0, 2)>>))>>)

\* lines 368-373: the pair of one match, if float() takes it
parsed_amount(amount_str) ==
  IF float_ok(amount_str) THEN <<<<float_cents(amount_str), amount_str>>>> ELSE <<>>

RECURSIVE parsed_amounts(_, _)
\* lines 366-373: the (amount, amount_str) pairs of the matches of one pattern
parsed_amounts(matches, i) ==
  IF i > Len(matches) THEN <<>>
  ELSE parsed_amount(str_remove(matches[i], ",")) \o parsed_amounts(matches, i + 1)

RECURSIVE collect_amounts(_, _)
\* lines 363-373: all_amounts after the patterns from i on
collect_amounts(text, i) ==
  IF i > Len(amount_patterns) THEN <<>>
  ELSE parsed_amounts(re_findall(amount_patterns[i], text, 1), 1)
       \o collect_amounts(text, i + 1)

\* mutant: the first candidate wins
first_amount(all_amounts) == all_amounts[1]

\* max(all_amounts, key=lambda x: x[0]): the first of the largest
largest_amount(all_amounts) ==
  all_amounts[CHOOSE i \in 1..Len(all_amounts) :
                /\ \A j \in 1..Len(all_amounts) : all_amounts[j][1] <= all_amounts[i][1]
                /\ \A j \in 1..(i - 1) : all_amounts[j][1] < all_amounts[i][1]]

\* the largest of a sequence of numbers
max_of(amounts) == CHOOSE x \in Range(amounts) : \A y \in Range(amounts) : y <= x

\* lines 380-386: the fallback for the matches of the bare dollar pattern
fallback_amount(matches) ==
  IF matches # <<>>
  THEN <<"$">> \o format_2f(max_of([i \in 1..Len(matches) |->
                                      float_cents(str_remove(matches[i], ","))]))
  ELSE None

\* lines 375-388
amount_of(text, all_amounts) ==
  IF all_amounts # <<>> THEN <<"$">> \o largest_amount(all_amounts)[2]
  ELSE fallback_amount(re_findall(fallback_pattern, text, 1))

extract_amount(text) == amount_of(text, collect_amounts(text, 1))


-----------------------------------------------------------------------------
(* extract_date on the four shapes of every date of a few years *)

DateYears == {1999, 2000, 2023, 2024}

ValidDates ==
  {dt \in [y : DateYears, m : 1..12, d : 1..31] : dt.d <= DaysIn(dt.y, dt.m)}

Year4(y) == str_of_int(y)

\* a date written MM/DD/YYYY, YYYY/MM/DD, Month DD, YYYY and DD Month YYYY
DateShape(dt, k) ==
  CASE k = 1 -> Pad2(dt.m) \o <<"/">> \o Pad2(dt.d) \o <<"/">> \o Year4(dt.y)
    [] k = 2 -> Year4(dt.y) \o <<"/">> \o Pad2(dt.m) \o <<"/">> \o Pad2(dt.d)
    [] k = 3 -> month_names[dt.m] \o <<" ">> \o Pad2(dt.d) \o <<",", " ">> \o Year4(dt.y)
    [] k = 4 -> Pad2(dt.d) \o <<" ">> \o month_names[dt.m] \o <<" ">> \o Year4(dt.y)

IsoDate(dt) == Year4(dt.y) \o <<"-">> \o Pad2(dt.m) \o <<"-">> \o Pad2(dt.d)

DateInputs == {[date |-> dt, shape |-> k, text |-> DateShape(dt, k)] : dt \in ValidDates, k \in 1..4}

InitDate ==
  /\ arg \in DateInputs /\ ret = None /\ ret2 = None /\ pc = "call"
  /\ BatchIdle

ExtractDate ==
  /\ pc = "call"
  /\ ret' = extract_date(arg.text)
  /\ pc' = "returned"
  /\ UNCHANGED <<arg, ret2, batch_vars>>

NextDate == ExtractDate

SpecDate == InitDate /\ [][NextDate]_vars

\* C8: a valid date written in any of the four supported shapes and passed alone
\* to extract_date comes back as that date in the form YYYY-MM-DD
C8_DateRoundTrip == pc = "returned" => ret = IsoDate(arg.date)

-----------------------------------------------------------------------------
(* extract_amount on bounded texts *)

MaxAmountLen == 4

AmountAlphabet == {"$", "1", "9", ".", ",", " "}

SubtotalTaxTotal == <<"S", "u", "b", "t", "o", "t", "a", "l", " ", "$", "1", "0", ".", "0", "0", " ", "T", "a", "x", " ", "$", "1", ".", "0", "0", " ", "T", "o", "t", "a", "l", " ", "$", "1", "1", ".", "0", "0">>

AmountLeads == {<<>>, <<"T", "o", "t", "a", "l", " ">>}

AmountInputs ==
  {SubtotalTaxTotal}
  \cup {lead \o t : lead \in AmountLeads,
                    t \in UNION {[1..k -> AmountAlphabet] : k \in 0..MaxAmountLen}}

InitAmount ==
  /\ arg \in AmountInputs /\ ret = None /\ ret2 = None /\ pc = "call"
  /\ BatchIdle

ExtractAmount ==
  /\ pc = "call"
  /\ ret' = extract_amount(arg)
  /\ pc' = "returned"
  /\ UNCHANGED <<arg, ret2, batch_vars>>

NextAmount == ExtractAmount

SpecAmount == InitAmount /\ [][NextAmount]_vars

\* the digit strings the k-th primary pattern family matches in text
FamilyCandidates(text, k) == Range(re_findall(amount_patterns[k], text, 1))

Candidates(text) == UNION {FamilyCandidates(text, k) : k \in 1..3}

\* C9: when the three primary pattern families find a candidate, the result is
\* "$" and the digit string (separators removed) of a candidate of the largest
\* value, next to a keyword or not; the subtotal/tax/total example gives $11.00
C9_LargestCandidateWins ==
  pc = "returned" =>
    /\ Candidates(arg) # {} =>
         \E c \in Candidates(arg) :
            /\ ret = <<"$">> \o str_remove(c, ",")
            /\ \A o \in Candidates(arg) :
                  float_cents(str_remove(o, ",")) <= float_cents(str_remove(c, ","))
    /\ arg = SubtotalTaxTotal => ret = <<"$", "1", "1", ".", "0", "0">>

\* a keyword has a candidate next to it, and a larger one elsewhere was returned
C9_Witness ==
  /\ pc = "returned"
  /\ FamilyCandidates(arg, 1) \cup FamilyCandidates(arg, 3) # {}
  /\ ret # None
  /\ \A c \in FamilyCandidates(arg, 1) \cup FamilyCandidates(arg, 3) :
        float_cents(str_remove(c, ",")) < float_cents(Tail(ret))

\* ^\$\d+(\.\d{1,2})?$
AmountShape ==
  Cat(<<Chr("$"), Plus(D09), Opt(Cat(<<Chr("."), Rep(D09, 1, 2)>>))>>)

\* C10: a result of extract_amount other than None is a dollar sign, digits, and
\* optionally a decimal point followed by one or two digits
C10_AmountShape == (pc = "returned" /\ ret # None) => re_fullmatch(AmountShape, ret)


-----------------------------------------------------------------------------
(* extract_receipt.py: extract_vendor *)

NonSpace == Set(Sigma \ Space)                 \* [^\s]
PhoneSep == Opt(Set({"-", "."} \cup Space))    \* [-.\s]?
CurrencyDigits == Plus(Set(Digit \cup {","}))  \* [\d,]+

\* \(?\d{3}\)?[-.\s]?\d{3}[-.\s]?\d{4}
phone_re ==
  Cat(<<Opt(Chr("(")), Rep(D09, 3, 3), Opt(Chr(")")), PhoneSep, Rep(D09, 3, 3), PhoneSep,
        Rep(D09, 4, 4)>>)

\* https?://|www\.|\.com|\.net|\.org|\.co\.
url_re ==
  Alt(<<Cat(<<LitI(<<"h", "t", "t", "p">>), Opt(LitI(<<"s">>)), Lit(<<":", "/", "/">>)>>),
        LitI(<<"w", "w", "w", ".">>), LitI(<<".", "c", "o", "m">>), LitI(<<".", "n", "e", "t">>), LitI(<<".", "o", "r", "g">>), LitI(<<".", "c", "o", ".">>)>>)

\* @[a-zA-Z0-9.-]+\.[a-zA-Z]{2,}
email_re ==
  Cat(<<Chr("@"), Plus(Set(Letter \cup Digit \cup {".", "-"})), Chr("."),
        Rep(Set(Letter), 2, -1)>>)

\* \b(street|st|avenue|...|apartment)\b
address_re ==
  Cat(<<WordB,
    Alt(<<
        LitI(<<"s", "t", "r", "e", "e", "t">>),
        LitI(<<"s", "t">>),
        LitI(<<"a", "v", "e", "n", "u", "e">>),
        LitI(<<"a", "v", "e">>),
        LitI(<<"r", "o", "a", "d">>),
        LitI(<<"r", "d">>),
        LitI(<<"b", "o", "u", "l", "e", "v", "a", "r", "d">>),
        LitI(<<"b", "l", "v", "d">>),
        LitI(<<"d", "r", "i", "v", "e">>),
        LitI(<<"d", "r">>),
        LitI(<<"l", "a", "n", "e">>),
        LitI(<<"l", "n">>),
        LitI(<<"w", "a", "y">>),
        LitI(<<"c", "o", "u", "r", "t">>),
        LitI(<<"c", "t">>),
        LitI(<<"p", "l", "a", "z", "a">>),
        LitI(<<"p", "l", "z">>),
        LitI(<<"s", "u", "i", "t", "e">>),
        LitI(<<"s", "t", "e">>),
        LitI(<<"u", "n", "i", "t">>),
        LitI(<<"a", "p", "t">>),
        LitI(<<"a", "p", "a", "r", "t", "m", "e", "n", "t">>)>>),
    WordB>>)

\* \b\d{5}(-\d{4})?\b
zip_re == Cat(<<WordB, Rep(D09, 5, 5), Opt(Cat(<<Chr("-"), Rep(D09, 4, 4)>>)), WordB>>)

\* \b(store|location|loc|#)\s*[:#]?\s*\d+
store_re ==
  Cat(<<WordB, Alt(<<LitI(<<"s", "t", "o", "r", "e">>), LitI(<<"l", "o", "c", "a", "t", "i", "o", "n">>), LitI(<<"l", "o", "c">>), Chr("#")>>),
        Star(Set(Space)), Opt(Set({":", "#"})), Star(Set(Space)), Plus(D09)>>)

\* \d{1,2}[/-]\d{1,2}[/-]\d{2,4}|\d{1,2}:\d{2}
soft_date_re ==
  Alt(<<Cat(<<Rep(D09, 1, 2), DateSep, Rep(D09, 1, 2), DateSep, Rep(D09, 2, 4)>>),
        Cat(<<Rep(D09, 1, 2), Chr(":"), Rep(D09, 2, 2)>>)>>)

\* \$[\d,]+\.?\d{0,2}
dollar_first_re == Cat(<<Chr("$"), CurrencyDigits, Opt(Chr(".")), Rep(D09, 0, 2)>>)

\* [\d,]+\.?\d{0,2}\s*\$
dollar_last_re ==
  Cat(<<CurrencyDigits, Opt(Chr(".")), Rep(D09, 0, 2), Star(Set(Space)), Chr("$")>>)

soft_currency_re == Alt(<<dollar_first_re, dollar_last_re>>)

\* ^[\d\s\-\/\.:]+$
numeric_re == Cat(<<Bol, Plus(Set(Digit \cup Space \cup {"-", "/", ".", ":"})), Eol>>)

has_letter(s) == \E i \in 1..Len(s) : s[i] \in Letter

\* the six tests that end the walk over the logo lines (lines 416-437)
hard_stop(line) ==
  \/ re_search(phone_re, line)
  \/ re_search(url_re, line)
  \/ re_search(email_re, line)
  \/ re_search(address_re, line)
  \/ re_search(zip_re, line)
  \/ re_search(store_re, line)

\* the three tests that pass a logo line over (lines 440-449)
soft_skip(line) ==
  \/ re_search(soft_date_re, line)
  \/ re_search(soft_currency_re, line)
  \/ re_match(numeric_re, line)

RECURSIVE collect_vendor_lines(_, _, _)

\* mutant: a soft-skip line ends the walk like a hard-stop line
walk_line_soft_break(lines, i, vendor_lines, line) ==
  IF line = <<>> THEN collect_vendor_lines(lines, i + 1, vendor_lines)
  ELSE IF hard_stop(line) \/ soft_skip(line) THEN vendor_lines
  ELSE IF has_letter(line) /\ Len(line) > 2
       THEN IF Len(vendor_lines) + 1 >= 3 THEN Append(vendor_lines, line)
            ELSE collect_vendor_lines(lines, i + 1, Append(vendor_lines, line))
       ELSE collect_vendor_lines(lines, i + 1, vendor_lines)

\* lines 410-456 for the stripped line of position i
walk_line(lines, i, vendor_lines, line) ==
  IF line = <<>> THEN collect_vendor_lines(lines, i + 1, vendor_lines)
  ELSE IF hard_stop(line) THEN vendor_lines
  ELSE IF soft_skip(line) THEN collect_vendor_lines(lines, i + 1, vendor_lines)
  ELSE IF has_letter(line) /\ Len(line) > 2
       THEN IF Len(vendor_lines) + 1 >= 3 THEN Append(vendor_lines, line)
            ELSE collect_vendor_lines(lines, i + 1, Append(vendor_lines, line))
       ELSE collect_vendor_lines(lines, i + 1, vendor_lines)

\* lines 408-456: vendor_lines after the walk from line i on
collect_vendor_lines(lines, i, vendor_lines) ==
  IF i > Len(lines) THEN vendor_lines
  ELSE walk_line(lines, i, vendor_lines, str_strip(lines[i], Space))

\* sep.join(words)
str_join(words, sep) ==
  Flat([k \in 1..Len(words) |-> IF k = 1 THEN words[1] ELSE sep \o words[k]], 1, Len(words))

\* str.split(): the words between runs of white space
str_split(s) == re_findall(Plus(NonSpace), s, 0)

\* str.split('\n')
split_lines(s) == re_split(Chr("\n"), s)

\* \d{1,2}:\d{2}(?::\d{2})?(?:\s*[AP]M)? under re.IGNORECASE
time_re ==
  Cat(<<Rep(D09, 1, 2), Chr(":"), Rep(D09, 2, 2), Opt(Cat(<<Chr(":"), Rep(D09, 2, 2)>>)),
        Opt(Cat(<<Star(Set(Space)), Set({"A", "P", "a", "p"}), Set({"M", "m"})>>))>>)

vendor_date_patterns == date_patterns \o <<time_re>>

\* (?:total|amount|due|balance|charge|tax|subtotal)[:\s]*\$?\s*[\d,]+\.?\d{0,2}
keyword_amount_re ==
  Cat(<<Alt(<<LitI(<<"t", "o", "t", "a", "l">>), LitI(<<"a", "m", "o", "u", "n", "t">>), LitI(<<"d", "u", "e">>), LitI(<<"b", "a", "l", "a", "n", "c", "e">>), LitI(<<"c", "h", "a", "r", "g", "e">>),
              LitI(<<"t", "a", "x">>), LitI(<<"s", "u", "b", "t", "o", "t", "a", "l">>)>>),
        Star(Set({":"} \cup Space)), Opt(Chr("$")), Star(Set(Space)),
        CurrencyDigits, Opt(Chr(".")), Rep(D09, 0, 2)>>)

currency_patterns ==
  <<dollar_first_re, dollar_last_re, keyword_amount_re,
    Cat(<<Plus(D09), Chr("."), Rep(D09, 2, 2)>>)>>

\* https?://[^\s]+|www\.[^\s]+|[^\s]+\.(com|net|org|co)\b
url_sub_re ==
  Alt(<<Cat(<<LitI(<<"h", "t", "t", "p">>), Opt(LitI(<<"s">>)), Lit(<<":", "/", "/">>), Plus(NonSpace)>>),
        Cat(<<LitI(<<"w", "w", "w", ".">>), Plus(NonSpace)>>),
        Cat(<<Plus(NonSpace), Chr("."),
              Alt(<<LitI(<<"c", "o", "m">>), LitI(<<"n", "e", "t">>), LitI(<<"o", "r", "g">>), LitI(<<"c", "o">>)>>), WordB>>)>>)

\* [^\s]+@[^\s]+
email_sub_re == Cat(<<Plus(NonSpace), Chr("@"), Plus(NonSpace)>>)

skip_words ==
  <<<<"r", "e", "c", "e", "i", "p", "t">>,
    <<"i", "n", "v", "o", "i", "c", "e">>,
    <<"t", "r", "a", "n", "s", "a", "c", "t", "i", "o", "n">>,
    <<"d", "a", "t", "e">>,
    <<"t", "i", "m", "e">>,
    <<"t", "o", "t", "a", "l">>,
    <<"a", "m", "o", "u", "n", "t">>,
    <<"d", "u", "e">>,
    <<"b", "a", "l", "a", "n", "c", "e">>,
    <<"c", "h", "a", "r", "g", "e">>,
    <<"t", "a", "x">>,
    <<"s", "u", "b", "t", "o", "t", "a", "l">>,
    <<"s", "t", "o", "r", "e">>,
    <<"l", "o", "c", "a", "t", "i", "o", "n">>,
    <<"p", "h", "o", "n", "e">>,
    <<"t", "e", "l">>,
    <<"f", "a", "x">>,
    <<"e", "m", "a", "i", "l">>,
    <<"w", "e", "b">>>>

RECURSIVE sub_each(_, _, _)
\* for pattern in patterns: s = re.sub(pattern, '', s)
sub_each(patterns, i, s) ==
  IF i > Len(patterns) \/ s = <<>> THEN s
  ELSE sub_each(patterns, i + 1, re_sub(patterns[i], <<>>, s))

\* ^[^\w\s]+|[^\w\s]+$
edge_punct_re ==
  Alt(<<Cat(<<Bol, Plus(Set(Sigma \ (WordChar \cup Space)))>>),
        Cat(<<Plus(Set(Sigma \ (WordChar \cup Space))), Eol>>)>>)

\* ^[^\w]+|[^\w]+$
edge_nonword_re ==
  Alt(<<Cat(<<Bol, Plus(Set(Sigma \ WordChar))>>),
        Cat(<<Plus(Set(Sigma \ WordChar)), Eol>>)>>)

\* the phone number, URL, email and zip code removals of lines 488-497 and 568-571
contact_patterns == <<phone_re, url_sub_re, email_sub_re, zip_re>>

\* ' '.join(s.split())
collapse_spaces(s) == str_join(str_split(s), <<" ">>)

\* Lines 464-511, the cleanup of the joined logo lines, step by step; once a
\* step leaves nothing, the later steps have nothing to work on.

\* line 511: the words that are only digits and punctuation are dropped
drop_numeric_words(vendor) ==
  IF vendor = <<>> THEN <<>>
  ELSE str_join(SelectSeq(str_split(vendor), LAMBDA w : ~re_match(numeric_re, w)), <<" ">>)

\* lines 507-509
trim_edges(vendor) ==
  IF vendor = <<>> THEN <<>>
  ELSE drop_numeric_words(collapse_spaces(re_sub(edge_punct_re, <<>>, vendor)))

\* lines 500-504
drop_skip_words(vendor) ==
  IF vendor = <<>> THEN <<>>
  ELSE trim_edges(str_join(SelectSeq(str_split(vendor),
                                     LAMBDA w : str_lower(w) \notin Range(skip_words)),
                           <<" ">>))

\* lines 465-497
clean_logo_vendor(vendor) ==
  drop_skip_words(sub_each(contact_patterns, 1,
                    sub_each(currency_patterns, 1,
                      sub_each(vendor_date_patterns, 1, vendor))))

\* lines 514-515
accept_logo_vendor(vendor) == IF Len(vendor) > 2 /\ has_letter(vendor) THEN vendor ELSE None

\* lines 458-462
join_vendor_lines(lines, vendor_lines) ==
  IF vendor_lines # <<>> THEN str_join(vendor_lines, <<" ">>) ELSE str_strip(lines[1], Space)

\* lines 408-515 for the lines of the logo text
vendor_from_logo_lines(lines) ==
  accept_logo_vendor(clean_logo_vendor(
    join_vendor_lines(lines, collect_vendor_lines(lines, 1, <<>>))))

\* lines 403-515: the vendor from the logo text, or None when it is rejected
vendor_from_logo(logo_text) == vendor_from_logo_lines(split_lines(str_strip(logo_text, Space)))

\* the tests that pass a body line over (lines 526-559)
body_skip(line) ==
  \/ re_match(numeric_re, line)
  \/ re_search(phone_re, line)
  \/ re_search(url_re, line)
  \/ re_search(email_re, line)
  \/ re_search(address_re, line)
  \/ re_search(zip_re, line)
  \/ re_search(store_re, line)
  \/ \E k \in DOMAIN skip_words : re_search(Lit(skip_words[k]), str_lower(line))

\* lines 568-572
strip_contacts(vendor) ==
  IF vendor = <<>> THEN <<>> ELSE collapse_spaces(sub_each(contact_patterns, 1, vendor))

\* lines 564-572
clean_body_vendor(line) == strip_contacts(collapse_spaces(re_sub(edge_nonword_re, <<>>, line)))

body_scan_lines == 10

RECURSIVE vendor_from_body(_, _)

\* lines 574-575: the cleaned line is returned if it is long enough
accept_body_vendor(lines, i, vendor) ==
  IF Len(vendor) > 2 THEN vendor ELSE vendor_from_body(lines, i + 1)

\* lines 523-575 for the stripped line of position i
scan_body_line(lines, i, line) ==
  IF line = <<>> \/ body_skip(line) THEN vendor_from_body(lines, i + 1)
  ELSE IF Len(line) > 3 /\ has_letter(line)
       THEN accept_body_vendor(lines, i, clean_body_vendor(line))
       ELSE vendor_from_body(lines, i + 1)

\* mutant: the loop is over all the lines
vendor_from_body_all_lines(lines, i) ==
  IF i > Len(lines) THEN None
  ELSE scan_body_line(lines, i, str_strip(lines[i], Space))

\* lines 521-577: the loop over lines[:10], from line i on
vendor_from_body(lines, i) ==
  IF i > Len(lines) \/ i > body_scan_lines THEN None
  ELSE scan_body_line(lines, i, str_strip(lines[i], Space))

\* lines 517-577: the logo's vendor, or else the body's
logo_or_body(from_logo, text) ==
  IF from_logo # None THEN from_logo ELSE vendor_from_body(split_lines(text), 1)

extract_vendor(text, logo_text) ==
  logo_or_body(IF logo_text = None \/ logo_text = <<>> THEN None
               ELSE vendor_from_logo(logo_text),
               text)

-----------------------------------------------------------------------------
(* process_receipts.py: the new file name *)

\* the 1-based position of the last dot of name, 0 when it has none
LastDot(name) ==
  IF Contains(name, ".")
  THEN CHOOSE i \in 1..Len(name) : name[i] = "." /\ \A j \in (i + 1)..Len(name) : name[j] # "."
  ELSE 0

\* Path.suffix: from the last dot on, unless that dot starts or ends the name
path_suffix(name) ==
  IF 1 < LastDot(name) /\ LastDot(name) < Len(name)
  THEN SubSeq(name, LastDot(name), Len(name)) ELSE <<>>

\* Path.stem: the name without its suffix
path_stem(name) ==
  IF 1 < LastDot(name) /\ LastDot(name) < Len(name)
  THEN SubSeq(name, 1, LastDot(name) - 1) ELSE name

format_amount_for_filename(amount) ==
  IF amount = None \/ amount = <<>> THEN unknown_amount
  ELSE LET formatted == str_remove(str_strip(str_remove(amount, "$"), Space), ",")
       IN  IF float_ok(formatted) THEN <<"$">> \o formatted ELSE unknown_amount

\* mutant: the placeholders for a missing vendor and a missing date are dropped
generate_new_filename_no_placeholders(file_path, vendor, date, amount) ==
  sanitize_filename(vendor) \o <<" ">> \o sanitize_filename(date) \o <<" ">>
    \o format_amount_for_filename(amount) \o path_suffix(file_path)

generate_new_filename(file_path, vendor, date, amount) ==
  LET ext == path_suffix(file_path)
      vendor_part == IF vendor # None /\ vendor # <<>> THEN sanitize_filename(vendor)
                     ELSE unknown_vendor
      date_part == IF date # None /\ date # <<>> THEN sanitize_filename(date)
                   ELSE unknown_date
      amount_part == format_amount_for_filename(amount)
  IN  vendor_part \o <<" ">> \o date_part \o <<" ">> \o amount_part \o ext

\* f"{base_name}_{counter}{suffix}"
Suffixed(base_name, counter, suffix) ==
  base_name \o <<"_">> \o str_of_int(counter) \o suffix

RECURSIVE next_free_path(_, _, _, _)
\* the while loop of lines 250-253: names are the names that exist in the folder
next_free_path(names, base_name, new_path, counter) ==
  IF new_path \notin names THEN new_path
  ELSE next_free_path(names, base_name,
                      Suffixed(base_name, counter, path_suffix(new_path)), counter + 1)

\* mutant: the target is used as computed, whether or not it exists
resolve_collision_unchecked(names, file_path, new_filename) == new_filename

\* lines 246-253: the path the file is renamed to
resolve_collision(names, file_path, new_filename) ==
  IF new_filename \in names /\ new_filename # file_path
  THEN next_free_path(names, path_stem(new_filename), new_filename, 1)
  ELSE new_filename

-----------------------------------------------------------------------------
(* process_receipts.py: the files of the folder *)

SUPPORTED_FORMATS ==
  {<<"J", "P", "E", "G">>, <<"J", "P", "G">>, <<"P", "N", "G">>, <<"G", "I", "F">>,
   <<"B", "M", "P">>, <<"T", "I", "F", "F">>, <<"T", "I", "F">>, <<"W", "E", "B", "P">>,
   <<"I", "C", "O">>, <<"P", "C", "X">>, <<"D", "C", "X">>, <<"E", "P", "S">>,
   <<"P", "C", "D">>, <<"P", "S", "D">>, <<"S", "G", "I">>, <<"T", "G", "A">>,
   <<"X", "B", "M">>, <<"X", "P", "M">>, <<"P", "P", "M">>, <<"P", "G", "M">>,
   <<"P", "B", "M">>}

PDF == <<"P", "D", "F">>

\* Path.glob("*." + ext): the name ends with a dot and ext
glob_ext(name, ext) ==
  Len(name) > Len(ext) /\ SubSeq(name, Len(name) - Len(ext), Len(name)) = <<".">> \o ext

\* ext.lower() and ext.upper() for the formats, and pdf and PDF
lower_exts == {str_lower(ext) : ext \in SUPPORTED_FORMATS \cup {PDF}}
upper_exts == {str_upper(ext) : ext \in SUPPORTED_FORMATS \cup {PDF}}

\* the names found by the glob calls with ext.lower() (lines 112, 120)
lower_hits(names) == {n \in names : \E ext \in lower_exts : glob_ext(n, ext)}

\* the names found by the glob calls with ext.upper() (lines 115, 123)
upper_hits(names) == {n \in names : \E ext \in upper_exts : glob_ext(n, ext)}

\* sorted(S) for a set of names
Sorted(S) ==
  [i \in 1..Cardinality(S) |-> CHOOSE n \in S : Cardinality({m \in S : StrLess(m, n)}) = i - 1]

\* line 131: each name found with its key
keyed(hits) == {<<n, str_lower(n)>> : n \in hits}

\* lines 127-134: the sets of (name, key) pairs the removal of duplicates can
\* keep.  Of the names with one key the first one found is kept: the lower-case
\* glob of an extension runs before its upper-case glob (lower holds its
\* names), and the order inside one glob is the directory's, which is not fixed.
unique_files(found, lower) ==
  {S \in SUBSET found :
     /\ \A p \in S : p[1] \in lower \/ \A q \in found : q[2] = p[2] => q[1] \notin lower
     /\ \A q \in found : Cardinality({p \in S : p[2] = q[2]}) = 1}

\* the results get_supported_image_files can return for a folder holding names
get_supported_image_files(names) ==
  {Sorted({p[1] : p \in S}) :
     S \in unique_files(keyed(lower_hits(names) \cup upper_hits(names)), lower_hits(names))}

is_pdf_file(name) == str_upper(path_suffix(name)) = <<".">> \o PDF

-----------------------------------------------------------------------------
(* process_receipts.py: main, the batch run over a folder *)

\* What the readers find in a file: whether it can be opened and rasterized,
\* the text OCR gives for the page, and the text of the logo region.
blank_page == [readable |-> TRUE, text |-> <<>>, logo |-> None]

receipt ==
  [readable |-> TRUE,
   text |-> <<"A", "C", "M", "E", "\n", "T", "o", "t", "a", "l", " ", "$", "4", ".", "7", "5", "\n", "0", "1", "/", "0", "5", "/", "2", "0", "2", "3">>,
   logo |-> None]

logo_only == [readable |-> TRUE, text |-> <<>>, logo |-> <<"A", "C", "M", "E", " ", "C", "O", "R", "P">>]

corrupt == [readable |-> FALSE, text |-> <<>>, logo |-> None]

Documents == <<blank_page, receipt, logo_only, corrupt>>

\* lines 171-172 and 178 for each document: the fields the extractors give
Extracted ==
  [d \in DOMAIN Documents |->
     [date |-> extract_date(Documents[d].text),
      amount |-> extract_amount(Documents[d].text),
      vendor |-> extract_vendor(Documents[d].text, Documents[d].logo)]]

MaxFiles == 3

NamePool ==
  {<<"a", ".", "p", "n", "g">>,
   <<"b", ".", "p", "n", "g">>,
   <<"A", ".", "P", "N", "G">>,
   <<"d", ".", "p", "d", "f">>,
   <<"n", ".", "t", "x", "t">>,
   <<"u", "n", "k", "n", "o", "w", "n", "_", "v", "e", "n", "d", "o", "r", " ", "u", "n", "k", "n", "o", "w", "n", "_", "d", "a", "t", "e", " ", "u", "n", "k", "n", "o", "w", "n", "_", "a", "m", "o", "u", "n", "t", ".", "p", "n", "g">>}

\* a folder: the names in it and the document each name holds
Folders ==
  UNION {[S -> DOMAIN Documents] : S \in {T \in SUBSET NamePool : Cardinality(T) <= MaxFiles}}

\* sys.argv[2]: the vendor name given for all files, possibly empty
VendorArgs == {<<>>, <<"A", "/", "C">>}

Init ==
  /\ fs \in Folders /\ fs0 = fs
  /\ vendor_name \in VendorArgs /\ dry_run \in BOOLEAN
  /\ files = <<>> /\ idx = 0 /\ result = None
  /\ success_count = 0 /\ error_count = 0 /\ log = <<>>
  /\ pc = "main"
  /\ arg = <<>> /\ ret = None /\ ret2 = None

pure_vars == <<arg, ret, ret2>>

\* main, lines 294 and 300-306: the folder holds supported files
GetFiles ==
  /\ pc = "main"
  /\ \E listing \in get_supported_image_files(DOMAIN fs) :
       /\ listing # <<>>
       /\ files' = listing
  /\ idx' = 1
  /\ pc' = "loop"
  /\ UNCHANGED <<fs, fs0, vendor_name, dry_run, result, success_count, error_count, log,
                 pure_vars>>

\* main, lines 294-298: no supported file, sys.exit(0)
NoFiles ==
  /\ pc = "main"
  /\ <<>> \in get_supported_image_files(DOMAIN fs)
  /\ pc' = "exited"
  /\ UNCHANGED <<fs, fs0, files, idx, vendor_name, dry_run, result, success_count,
                 error_count, log, pure_vars>>

InLoop == pc = "loop" /\ idx <= Len(files)

\* the readers can open and rasterize the file
CanRead(file_path) == file_path \in DOMAIN fs /\ Documents[fs[file_path]].readable

\* lines 175-185: the dict returned when nothing was raised; fields are the
\* values the extractors gave
success_result(vendor_arg, fields) ==
  [vendor |-> IF vendor_arg # <<>> THEN vendor_arg ELSE fields.vendor,
   date |-> fields.date, amount |-> fields.amount, success |-> TRUE]

\* lines 189-194: the dict returned by the except branch
failure_result(vendor_arg) ==
  [vendor |-> IF vendor_arg # <<>> THEN vendor_arg ELSE None,
   date |-> None, amount |-> None, success |-> FALSE]

\* process_receipt_file, lines 158-185: the file is read and the fields extracted
ProcessReceiptFile ==
  /\ InLoop /\ CanRead(files[idx])
  /\ result' = success_result(vendor_name, Extracted[fs[files[idx]]])
  /\ pc' = "processed"
  /\ UNCHANGED <<fs, fs0, files, idx, vendor_name, dry_run, success_count, error_count, log,
                 pure_vars>>

\* process_receipt_file, lines 187-194: an Exception raised inside the try block
\* and not already turned into an exit by a reader (a MemoryError, say)
ProcessRaises ==
  /\ InLoop /\ CanRead(files[idx])
  /\ result' = failure_result(vendor_name)
  /\ pc' = "processed"
  /\ UNCHANGED <<fs, fs0, files, idx, vendor_name, dry_run, success_count, error_count, log,
                 pure_vars>>

\* extract_text_from_pdf / extract_text_from_image: the reader catches its own
\* Exception and calls sys.exit(1); SystemExit is no Exception, so line 187
\* lets it through and the run ends
ReaderExits ==
  /\ InLoop /\ ~CanRead(files[idx])
  /\ pc' = "exited"
  /\ UNCHANGED <<fs, fs0, files, idx, vendor_name, dry_run, result, success_count,
                 error_count, log, pure_vars>>

\* Path.rename: the file is found under the new name only (an existing target
\* is replaced)
Renamed(folder, old, new) ==
  [n \in (DOMAIN folder \ {old}) \cup {new} |-> IF n = new THEN folder[old] ELSE folder[n]]

\* What a run reports about one file: the event, the name computed at line 242
\* (plain), the name after lines 246-253 (target), whether that target was free
\* when it was chosen, and whether main counted the file as a success (ok).
Report(file_path, event, new_filename, new_path, ok) ==
  [file |-> file_path,
   doc |-> IF file_path \in DOMAIN fs THEN fs[file_path] ELSE 0,
   event |-> event,
   res |-> result,
   plain |-> new_filename,
   target |-> new_path,
   free |-> new_path \notin DOMAIN fs \/ new_path = file_path,
   ok |-> ok]

\* mutant: the else branch of lines 322-323 is missing
Tally_drops_failure(returned) ==
  IF returned
  THEN success_count' = success_count + 1 /\ UNCHANGED error_count
  ELSE UNCHANGED <<success_count, error_count>>

\* main, lines 314-323: the count the value returned by the call adds to
Tally(returned) ==
  IF returned
  THEN success_count' = success_count + 1 /\ UNCHANGED error_count
  ELSE error_count' = error_count + 1 /\ UNCHANGED success_count

\* lines 255-265 and lines 314-323 of main, for the names lines 242-253 gave
ApplyRename(how, file_path, new_filename, new_path) ==
  /\ fs' = IF how = "renamed" THEN Renamed(fs, file_path, new_path) ELSE fs
  /\ log' = Append(log, Report(file_path, how, new_filename, new_path, how # "rename_error"))
  /\ Tally(how # "rename_error")
  /\ idx' = idx + 1
  /\ pc' = "loop"
  /\ UNCHANGED <<fs0, files, vendor_name, dry_run, result, pure_vars>>

\* lines 243-265 for the name line 242 gave
RenameTo(how, file_path, new_filename) ==
  ApplyRename(how, file_path, new_filename,
              resolve_collision(DOMAIN fs, file_path, new_filename))

\* rename_file_with_info and lines 312-323 of main; how says what the call does
RenameFileWithInfo(how) ==
  /\ pc = "processed" /\ result.success
  /\ RenameTo(how, files[idx],
              generate_new_filename(files[idx], result.vendor, result.date, result.amount))

\* mutant: the dry_run test of line 255 is missing
RenameDryRun_renames == dry_run /\ RenameFileWithInfo("renamed")

\* lines 255-257: dry run, the rename is only reported
RenameDryRun == dry_run /\ RenameFileWithInfo("would_rename")

\* lines 259-262: the file is renamed
RenamePerformed == ~dry_run /\ RenameFileWithInfo("renamed")

\* lines 263-265: Path.rename raises (the folder is read-only, say)
RenameFails == ~dry_run /\ RenameFileWithInfo("rename_error")

\* main, lines 324-325: the file was not processed
TallyError ==
  /\ pc = "processed" /\ ~result.success
  /\ error_count' = error_count + 1
  /\ log' = Append(log, Report(files[idx], "process_error", <<>>, <<>>, FALSE))
  /\ idx' = idx + 1
  /\ pc' = "loop"
  /\ UNCHANGED <<fs, fs0, files, vendor_name, dry_run, result, success_count, pure_vars>>

\* main, lines 327-330: the loop is over
Summary ==
  /\ pc = "loop" /\ idx > Len(files)
  /\ pc' = "done"
  /\ UNCHANGED <<fs, fs0, files, idx, vendor_name, dry_run, result, success_count,
                 error_count, log, pure_vars>>

Next ==
  \/ GetFiles \/ NoFiles
  \/ ProcessReceiptFile \/ ProcessRaises \/ ReaderExits
  \/ RenameDryRun \/ RenamePerformed \/ RenameFails
  \/ TallyError \/ Summary

Spec == Init /\ [][Next]_vars

-----------------------------------------------------------------------------
(* The batch run: what a run over a folder guarantees *)

\* the file of entry j was given a name: renamed, or planned in a dry run
Given(j) == log[j].event \in {"would_rename", "renamed"}

\* C1: a failure while processing one file is recorded for that file and the
\* batch goes on: the run ends early only when no supported file was found, and
\* at the summary every enumerated file has its record
C1_FailureDoesNotEndRun ==
  /\ pc = "exited" => files = <<>>
  /\ pc = "done" => Len(log) = Len(files)

\* the name plain and its suffixed forms
NameForms(plain) ==
  {plain} \cup {Suffixed(path_stem(plain), n, path_suffix(plain)) : n \in 1..MaxFiles}

\* the number of files before entry j that were given a name computed as plain
Rank(j, plain) == Cardinality({i \in 1..(j - 1) : Given(i) /\ log[i].plain = plain})

SuffixedByRank(plain, rank) ==
  IF rank = 0 THEN plain ELSE Suffixed(path_stem(plain), rank, path_suffix(plain))

\* C2: dry run or not, of the files that compute the same name, none of whose
\* forms exists beforehand, the first in sorted order is given the plain name
\* and the i-th the name suffixed _(i-1)
C2_CollisionSuffixes ==
  \A j \in DOMAIN log :
    (Given(j) /\ NameForms(log[j].plain) \cap DOMAIN fs0 = {}) =>
       log[j].target = SuffixedByRank(log[j].plain, Rank(j, log[j].plain))

\* C3: without dry run every rename goes to a path that does not exist or is
\* the file itself, and the folder holds as many files as before the batch
C3_NoOverwrite ==
  ~dry_run =>
    /\ Cardinality(DOMAIN fs) = Cardinality(DOMAIN fs0)
    /\ \A j \in DOMAIN log : log[j].event = "renamed" => log[j].free

\* a batch without dry run reached the summary after a rename whose computed
\* name was taken and that went to a suffixed name
C3_Witness ==
  /\ ~dry_run /\ pc = "done"
  /\ \E j \in DOMAIN log : log[j].event = "renamed" /\ log[j].target # log[j].plain

\* C4: in a dry run the folder stays as it was, and every processed file is
\* reported as a planned rename that returned True
C4_DryRunLeavesFolder ==
  dry_run =>
    /\ fs = fs0
    /\ \A j \in DOMAIN log :
         log[j].res.success => log[j].event = "would_rename" /\ log[j].ok

\* a dry run reached the summary after planning a rename to another name
C4_Witness ==
  /\ dry_run /\ pc = "done"
  /\ \E j \in DOMAIN log : log[j].event = "would_rename" /\ log[j].target # log[j].file

\* document d was read and its OCR text is empty
EmptyText(d) == d # 0 /\ Documents[d].readable /\ Documents[d].text = <<>>

\* unknown_vendor unknown_date unknown_amount and the extension of file_path
placeholder_name(file_path) ==
  unknown_vendor \o <<" ">> \o unknown_date \o <<" ">> \o unknown_amount
    \o path_suffix(file_path)

\* the run ended at a file (not for want of files)
ExitedAtFile == pc = "exited" /\ files # <<>> /\ files[idx] \in DOMAIN fs

\* C7 as stated: a document with empty OCR text gives vendor, date and amount
\* None, does not end the batch, is tallied as a failure and not as a success,
\* and in a dry run without vendor override its planned name is
\* unknown_vendor unknown_date unknown_amount and the extension
C7_EmptyTextIsFailure ==
  /\ \A j \in DOMAIN log :
       EmptyText(log[j].doc) =>
         /\ log[j].res.date = None /\ log[j].res.amount = None
         /\ vendor_name = <<>> => log[j].res.vendor = None
         /\ ~log[j].ok
         /\ (dry_run /\ vendor_name = <<>>) => log[j].plain = placeholder_name(log[j].file)
  /\ ExitedAtFile => ~EmptyText(fs[files[idx]])

\* C7, amended: a document with empty OCR text that is processed without an
\* exception gives date and amount None, and vendor None when the logo region
\* gives no text and no vendor override is set; it does not end the batch; it is
\* tallied as a success unless the rename itself fails, in a dry run always;
\* and in a dry run without override and logo text the name computed for it is
\* unknown_vendor unknown_date unknown_amount and the extension, planned with a
\* suffix _N when another file of the folder has that name
C7_EmptyTextIsRenamed ==
  /\ \A j \in DOMAIN log :
       (EmptyText(log[j].doc) /\ log[j].res.success) =>
         /\ log[j].res.date = None /\ log[j].res.amount = None
         /\ log[j].ok = (log[j].event # "rename_error")
         /\ dry_run => log[j].ok
         /\ (vendor_name = <<>> /\ Documents[log[j].doc].logo = None) =>
              /\ log[j].res.vendor = None
              /\ log[j].plain = placeholder_name(log[j].file)
              /\ dry_run => log[j].target \in NameForms(placeholder_name(log[j].file))
              /\ (dry_run /\ placeholder_name(log[j].file) \notin DOMAIN fs0) =>
                   log[j].target = log[j].plain
  /\ ExitedAtFile => ~EmptyText(fs[files[idx]])
  /\ success_count = Cardinality({j \in DOMAIN log : log[j].ok})
  /\ error_count = Cardinality({j \in DOMAIN log : ~log[j].ok})

\* a dry run without vendor override reached the summary after planning the
\* placeholder name for a blank page
C7_Witness ==
  /\ dry_run /\ vendor_name = <<>> /\ pc = "done"
  /\ \E j \in DOMAIN log :
       /\ EmptyText(log[j].doc) /\ Documents[log[j].doc].logo = None
       /\ log[j].event = "would_rename"
       /\ log[j].plain = placeholder_name(log[j].file)

-----------------------------------------------------------------------------
(* extract_vendor on logo texts and body texts made of a few kinds of lines *)

MaxLogoLines == 4

MaxBodyLines == 2

name_line == <<"A", "C", "M", "E", " ", "C", "O", "R", "P">>

other_name_line == <<"D", "E", "L", "I">>

date_line == <<"1", "2", "/", "1", "5", "/", "2", "0", "2", "3">>

phone_line == <<"(", "5", "5", "5", ")", " ", "1", "2", "3", "-", "4", "5", "6", "7">>

address_line == <<"1", "2", "3", " ", "M", "a", "i", "n", " ", "S", "t", "r", "e", "e", "t">>

\* a line with a date in it and a word before the date
paid_date_line == <<"P", "A", "I", "D", " ", "1", "2", "/", "1", "5", "/", "2", "0", "2", "3">>

\* a line the body tests let through and the removals leave 2 characters of
email_short_line == <<"a", "@", "b", " ", "x", "y">>

short_line == <<"a", "b">>

\* a line the body tests let through and the removals leave only digits of
url_digits_line == <<"x", ".", "c", "o", " ", "1", "2", "3">>

LogoPool == {name_line, other_name_line, paid_date_line, phone_line, address_line}

BodyPool == {name_line, date_line, short_line, url_digits_line, email_short_line, address_line}

LinesOver(pool, n) == UNION {[1..k -> pool] : k \in 0..n}

\* the body lines that lead a text: none, or phone lines up to and past the
\* last line that is looked at
Leads == {0, body_scan_lines - 1, body_scan_lines}

Lead(n) == [i \in 1..n |-> phone_line]

\* the logo lines, none of them for no logo text, and the body lines
VendorInputs ==
  {[logo |-> l, body |-> b] :
     l \in LinesOver(LogoPool, MaxLogoLines) \ {<<>>}, b \in {<<other_name_line>>}}
  \cup {[logo |-> <<>>, body |-> Lead(n) \o b] :
          n \in Leads, b \in LinesOver(BodyPool, MaxBodyLines)}

\* the text of lines, one per line
text_of(lines) == str_join(lines, <<"\n">>)

logo_text_of(lines) == IF lines = <<>> THEN None ELSE text_of(lines)

InitVendor ==
  /\ arg \in VendorInputs /\ ret = None /\ ret2 = None /\ pc = "call"
  /\ BatchIdle

ExtractVendor ==
  /\ pc = "call"
  /\ ret' = extract_vendor(text_of(arg.body), logo_text_of(arg.logo))
  /\ pc' = "returned"
  /\ UNCHANGED <<arg, ret2, batch_vars>>

NextVendor == ExtractVendor

SpecVendor == InitVendor /\ [][NextVendor]_vars

\* C11: a vendor that extract_vendor returns, from the logo text or from the
\* body text, is longer than 2 characters and has a letter in it
C11_VendorHasLetter ==
  (pc = "returned" /\ ret # None) => (Len(ret) > 2 /\ has_letter(ret))

-----------------------------------------------------------------------------
(* process_receipts.py: process_receipt_file on one file, statement by
   statement, with extract_text_from_logo_region of extract_receipt.py *)

\* where the body of extract_text_from_logo_region raises: opening or
\* rasterizing the file, cropping, preprocess_image_for_ocr (a crop without
\* height divides by zero at line 53), the OCR call
LogoFaults == {"open", "crop", "preprocess", "ocr"}

\* what the OCR of the top of the page gives before it is stripped
LogoRegions == {<<>>, <<"A", "B">>, <<" ", "A", "C", "M", "E", " ", "C", "O", "R", "P", "\n">>}

BodyTexts == {<<>>, receipt.text, <<"D", "E", "L", "I", "\n", "1", "2", "/", "1", "5", "/", "2", "0", "2", "3">>}

\* a page: whether the text reader can read it, its text, the OCR text of its
\* logo region, and the fault of the logo extraction, if any; a PDF without
\* pages ("no_pages") has no text
Pages ==
  {d \in [readable : BOOLEAN, text : BodyTexts, region : LogoRegions,
          fault : LogoFaults \cup {"none", "no_pages"}] :
     d.fault = "no_pages" => d.text = <<>>}

ProcessInputs ==
  {a \in [file_path : {<<"a", ".", "p", "n", "g">>, <<"d", ".", "p", "d", "f">>}, doc : Pages, vendor_name : VendorArgs] :
     a.doc.fault = "no_pages" => is_pdf_file(a.file_path)}

InitProcess ==
  /\ arg \in ProcessInputs /\ ret = None /\ ret2 = None /\ pc = "call"
  /\ BatchIdle

\* lines 158-165: the text of the file is read
ReadText ==
  /\ pc = "call" /\ arg.doc.readable
  /\ ret2' = [text |-> arg.doc.text, logo_text |-> None, warning |-> FALSE]
  /\ pc' = "text_read"
  /\ UNCHANGED <<arg, ret, batch_vars>>

\* extract_text_from_pdf / extract_text_from_image: sys.exit(1)
ReadTextExits ==
  /\ pc = "call" /\ ~arg.doc.readable
  /\ pc' = "exited"
  /\ UNCHANGED <<arg, ret, ret2, batch_vars>>

\* lines 269-272: the stripped text if it is longer than 2 characters
logo_text_of_region(logo_text) == IF Len(logo_text) > 2 THEN logo_text ELSE None

\* mutant: the exception leaves the function
logo_region_reraise(fault) == [st |-> "raised", value |-> None, warning |-> FALSE]

\* lines 273-275: except Exception prints a warning and returns None
logo_region_except(fault) == [st |-> "returned", value |-> None, warning |-> TRUE]

\* extract_text_from_logo_region: what the call gives for a page
extract_text_from_logo_region(doc) ==
  IF doc.fault \in LogoFaults THEN logo_region_except(doc.fault)
  ELSE IF doc.fault = "no_pages" THEN [st |-> "returned", value |-> None, warning |-> FALSE]
  ELSE [st |-> "returned", value |-> logo_text_of_region(str_strip(doc.region, Space)),
        warning |-> FALSE]

\* line 168 for the outcome of the call; an exception that leaves it is caught
\* at line 187
AfterLogoRegion(called) ==
  IF called.st = "raised"
  THEN /\ ret' = failure_result(arg.vendor_name)
       /\ pc' = "returned"
       /\ UNCHANGED ret2
  ELSE /\ ret2' = [ret2 EXCEPT !.logo_text = called.value, !.warning = called.warning]
       /\ pc' = "logo_read"
       /\ UNCHANGED ret

\* line 168
ReadLogoRegion ==
  /\ pc = "text_read"
  /\ AfterLogoRegion(extract_text_from_logo_region(arg.doc))
  /\ UNCHANGED <<arg, batch_vars>>

\* lines 171-178: the fields the extractors give for a text and a logo text
extracted_fields(text, logo_text) ==
  [date |-> extract_date(text), amount |-> extract_amount(text),
   vendor |-> extract_vendor(text, logo_text)]

\* lines 171-185
ExtractFields ==
  /\ pc = "logo_read"
  /\ ret' = success_result(arg.vendor_name, extracted_fields(ret2.text, ret2.logo_text))
  /\ pc' = "returned"
  /\ UNCHANGED <<arg, ret2, batch_vars>>

NextProcess == ReadText \/ ReadTextExits \/ ReadLogoRegion \/ ExtractFields

SpecProcess == InitProcess /\ [][NextProcess]_vars

\* the logo extraction of the page raises an exception
LogoFails == arg.doc.fault \in LogoFaults

\* C12: when the logo extraction of a page raises an exception, the call returns
\* None with a warning, and process_receipt_file goes on to return the date,
\* the amount and the vendor that the text gives with no logo text
C12_LogoFailureIsAbsentLogo ==
  /\ (LogoFails /\ pc = "logo_read") => (ret2.logo_text = None /\ ret2.warning)
  /\ (LogoFails /\ pc = "returned") =>
       ret = success_result(arg.vendor_name, extracted_fields(arg.doc.text, None))
  /\ (LogoFails /\ pc = "exited") => ~arg.doc.readable

\* a page with a usable logo region whose logo extraction raises is returned with
\* the vendor of its text
C12_Witness ==
  /\ LogoFails /\ pc = "returned" /\ arg.vendor_name = <<>>
  /\ logo_text_of_region(str_strip(arg.doc.region, Space)) # None
  /\ ret.success /\ ret.vendor # None /\ ret.date # None

\* the entries of the log with one of the events
Entries(events) == {j \in DOMAIN log : log[j].event \in events}

-----------------------------------------------------------------------------
(* extract_date on a numeric token a/b/c or a-b-c at the head of the text,
   alone or followed by a date of another shape *)

DayMonthParts == {<<"0">>, <<"1">>, <<"0", "3">>, <<"1", "2">>, <<"1", "3">>, <<"2", "9">>, <<"3", "1">>}

YearParts == {<<"2", "3">>, <<"2", "4">>, <<"6", "9">>, <<"2", "0", "2">>, <<"2", "0", "2", "3">>, <<"2", "0", "2", "4">>}

\* what follows the token: nothing, a date of the third shape, a date of the
\* second shape
DateTails == {<<>>, <<"\n", "D", "e", "c", "e", "m", "b", "e", "r", " ", "1", "5", ",", " ", "2", "0", "2", "3">>, <<"\n", "2", "0", "2", "3", "-", "1", "2", "-", "1", "5">>}

NumericToken(a, b, c, sep) == a \o <<sep>> \o b \o <<sep>> \o c

TokenInputs ==
  {[a |-> a, b |-> b, c |-> c, sep |-> sep, tail |-> t,
    text |-> NumericToken(a, b, c, sep) \o t] :
     a \in DayMonthParts, b \in DayMonthParts, c \in YearParts, sep \in {"/", "-"},
     t \in DateTails}

InitDateToken ==
  /\ arg \in TokenInputs /\ ret = None /\ ret2 = None /\ pc = "call"
  /\ BatchIdle

SpecDateToken == InitDateToken /\ [][NextDate]_vars

\* the year a year part of 2 or 4 digits stands for, 0 for none
YearRead(c, digits) ==
  IF Len(c) # digits THEN 0
  ELSE IF digits = 4 THEN int_of(c)
  ELSE IF int_of(c) < 69 THEN 2000 + int_of(c) ELSE 1900 + int_of(c)

IsDate(y, m, d) == y >= 1 /\ m \in 1..12 /\ d >= 1 /\ d <= DaysIn(y, m)

\* the readings of the token in the order of the claim: month first and day
\* first with a 4-digit year, then with a 2-digit year
Readings(t) ==
  << [y |-> YearRead(t.c, 4), m |-> int_of(t.a), d |-> int_of(t.b)],
     [y |-> YearRead(t.c, 4), m |-> int_of(t.b), d |-> int_of(t.a)],
     [y |-> YearRead(t.c, 2), m |-> int_of(t.a), d |-> int_of(t.b)],
     [y |-> YearRead(t.c, 2), m |-> int_of(t.b), d |-> int_of(t.a)] >>

ValidReadings(t) == SelectSeq(Readings(t), LAMBDA r : IsDate(r.y, r.m, r.d))

\* C14: when the token of the first pattern fails every format, the result is
\* None, whatever date of a later pattern follows in the text
C14_NoFallbackAfterFailedToken ==
  (pc = "returned" /\ ValidReadings(arg) = <<>>) => ret = None

\* C15: the token is read month first, then day first, with a 4-digit year, then
\* the same with a 2-digit year, and the first reading that is a date is returned
C15_MonthFirstThenDayFirst ==
  (pc = "returned" /\ ValidReadings(arg) # <<>>) => ret = IsoDate(ValidReadings(arg)[1])

\* a token that is a date in both readings comes back month first
C15_Witness ==
  /\ pc = "returned"
  /\ Len(ValidReadings(arg)) = 2
  /\ ValidReadings(arg)[1] # ValidReadings(arg)[2]
  /\ ret = IsoDate([y |-> YearRead(arg.c, Len(arg.c)), m |-> int_of(arg.a), d |-> int_of(arg.b)])

-----------------------------------------------------------------------------
(* extract_vendor: the lines of the logo text and of the body text that make
   the vendor name *)

\* the lines of the logo pool by the signal they carry
HardStopLines == {phone_line, address_line}

SoftSkipLines == {paid_date_line}

\* the position of the first hard-stop line of lines, 0 when there is none
FirstHardStop(lines) ==
  IF \E i \in DOMAIN lines : lines[i] \in HardStopLines
  THEN CHOOSE i \in DOMAIN lines :
         lines[i] \in HardStopLines /\ \A j \in 1..(i - 1) : lines[j] \notin HardStopLines
  ELSE 0

\* the lines before position stop, all of them when stop is 0
Before(lines, stop) == IF stop = 0 THEN lines ELSE SubSeq(lines, 1, stop - 1)

BeforeHardStop(lines) == Before(lines, FirstHardStop(lines))

\* the first n of lines, or all of them
AtMost(lines, n) == SubSeq(lines, 1, IF Len(lines) < n THEN Len(lines) ELSE n)

max_vendor_lines == 3

\* the name lines before the first hard-stop line, up to three of them
Accumulated(lines) ==
  AtMost(SelectSeq(BeforeHardStop(lines), LAMBDA l : l \notin SoftSkipLines),
         max_vendor_lines)

\* what Tier 1 gives for the logo lines of a: the accumulated lines joined by a
\* space or, when no line was accumulated, what it gives for the first line alone
Tier1Expected(a, accumulated) ==
  IF accumulated # <<>> THEN str_join(accumulated, <<" ">>)
  ELSE extract_vendor(text_of(a.body), a.logo[1])

HasHardStop == arg.logo # <<>> /\ FirstHardStop(arg.logo) # 0

\* a soft-skip line comes before any hard-stop line
HasSoftSkip ==
  arg.logo # <<>> /\ \E i \in DOMAIN BeforeHardStop(arg.logo) : arg.logo[i] \in SoftSkipLines

\* C16: the lines from the first hard-stop line on add nothing to the vendor
\* name, which is what the lines before it give
C16_NothingFromHardStopOn ==
  (pc = "returned" /\ HasHardStop) =>
    ret = extract_vendor(text_of(arg.body), logo_text_of(BeforeHardStop(arg.logo)))

\* the logo lines without the soft-skip lines
WithoutSoftSkip(lines) == SelectSeq(lines, LAMBDA l : l \notin SoftSkipLines)

BodyCandidate(line) ==
  /\ line # <<>> /\ ~body_skip(line)
  /\ Len(line) > 3 /\ has_letter(line)
  /\ Len(clean_body_vendor(line)) > 2

\* the cleaned form of the earliest candidate among the first lines, or None
Tier2Expected(lines, firsts) ==
  IF \E i \in firsts : BodyCandidate(lines[i])
  THEN clean_body_vendor(lines[CHOOSE i \in firsts :
                                 BodyCandidate(lines[i])
                                 /\ \A j \in 1..(i - 1) : ~BodyCandidate(lines[j])])
  ELSE None

\* what the two tiers give for the outcome of Tier 1
TiersExpected(a, from_logo) ==
  IF from_logo # None THEN from_logo
  ELSE Tier2Expected(a.body, DOMAIN a.body \cap 1..body_scan_lines)

\* C18: an accepted Tier 1 result is returned; otherwise the result is the
\* cleaned form of the earliest of the first 10 body lines that passes the reject
\* rules, is longer than 3 characters with a letter and is longer than 2
\* characters when cleaned, or None when there is no such line
C18_EarliestBodyLine ==
  pc = "returned" =>
    ret = TiersExpected(arg, IF arg.logo = <<>> THEN None
                             ELSE vendor_from_logo(text_of(arg.logo)))

\* with no logo text, a name on the eleventh line of the body is not returned
C18_Witness ==
  /\ pc = "returned" /\ arg.logo = <<>>
  /\ Len(arg.body) > body_scan_lines
  /\ BodyCandidate(arg.body[body_scan_lines + 1])
  /\ ret = None

-----------------------------------------------------------------------------
(* The batch run over the folder a first run has left *)

Again == <<"again">>

\* python process_receipts.py with the same arguments once more, after a run
\* without dry run that reached the summary with no error: arg keeps the names
\* the first run gave
RunAgain ==
  /\ pc = "done" /\ ~dry_run /\ error_count = 0 /\ ret = None
  /\ ret' = Again /\ arg' = {log[j].target : j \in DOMAIN log} /\ fs0' = fs
  /\ files' = <<>> /\ idx' = 0 /\ result' = None
  /\ success_count' = 0 /\ error_count' = 0 /\ log' = <<>>
  /\ pc' = "main"
  /\ UNCHANGED <<fs, vendor_name, dry_run, ret2>>

NextRerun == Next \/ RunAgain

SpecRerun == Init /\ [][NextRerun]_vars

\* C19: in the second run over the folder a first run has left, with the same
\* vendor override and the same fields extracted for each file, a file that the
\* first run gave its name, suffixed or not, is renamed to the name it has, and
\* at the summary of a second run without error the names the first run gave
\* are still in the folder
C19_RerunKeepsNames ==
  ret = Again =>
    /\ \A j \in DOMAIN log :
         (log[j].event = "renamed" /\ log[j].file \in arg) => log[j].target = log[j].file
    /\ (pc = "done" /\ error_count = 0) => arg \subseteq DOMAIN fs

=============================================================================
